---- MODULE Spec2Model ----
(***************************************************************************)
(* A model of package tools (nmeilick/go-tools):                           *)
(*   file.go   SaveFileFunc: write to a temporary file, then rename        *)
(*   slice.go  Minus, Merge, ToMap, SortNatural, naturalLess, getChunk     *)
(*   exit.go   AtExit, the cancel closure, Exit                            *)
(* Each part has its own specification; the variables of the other parts   *)
(* keep their initial value under it.                                      *)
(***************************************************************************)
EXTENDS Integers, Sequences, FiniteSets, TLC

VARIABLES
    \* ---- file.go: the filesystem and the calls of SaveFileFunc
    dirs,        \* the directories that exist, among GrandDir and ParentDir
    dirMode,     \* permission bits of each existing directory
    files,       \* the entries of ParentDir: name -> [content, mode]
    privileged,  \* whether the process passes every permission check (root)
    umask,       \* the process umask
    active,      \* the calls that take place in this run
    pc,          \* each call's position in SaveFileFunc
    perm,        \* each call's perm argument
    failAt,      \* each call's writer f: the number of bytes after which it fails
    tmp,         \* each call's temporary file name (tmp.Name())
    err,         \* each call's local variable err
    ret,         \* each call's return value
    hist,        \* per call, what it has done so far (observation only)
    fs0,         \* the directories and the destination entry before any call
                 \* (observation only)
    lastRenamer, \* the call whose os.Rename succeeded last (observation only)
    \* ---- slice.go: Minus, Merge
    sa, sb, sop, sres,
    \* ---- slice.go: SortNatural
    values, ignoreCase, sorted, sortPc,
    \* ---- slice.go: naturalLess, as sort.Slice calls it on two elements
    lessArgs,    \* the two strings compared
    lessRes,     \* the calls made so far: <<i, j, naturalLess(lessArgs[i], lessArgs[j])>>
    \* ---- exit.go
    exitFuncs, nextExitID, mutex, gpc, garg, gstack, handles, ran, exited,
    regOrder, cancelled

fileVars == <<dirs, dirMode, files, privileged, umask, active, pc, perm, failAt,
              tmp, err, ret, hist, fs0, lastRenamer>>
sliceVars == <<sa, sb, sop, sres>>
sortVars == <<values, ignoreCase, sorted, sortPc, lessArgs, lessRes>>
exitVars == <<exitFuncs, nextExitID, mutex, gpc, garg, gstack, handles, ran,
              exited, regOrder, cancelled>>
vars == <<fileVars, sliceVars, sortVars, exitVars>>

(***************************************************************************)
(* Bounds of the model.                                                    *)
(***************************************************************************)
\* the number of bytes each writer function has to write
MaxData == 2
\* the number of distinct names os.CreateTemp can draw
NumTmpNames == 2

(***************************************************************************)
(* Permission bits (octal in the source, decimal here).                    *)
(***************************************************************************)
\* 0444: the read bits masked in dperm
ReadBits == 292
\* 0600: the mode os.CreateTemp gives the file it creates
TempMode == 384
\* 0300: owner write and search, needed to create an entry in a directory
OwnerWX == 192
\* 0755: the mode of the directories that exist before the call
DirMode0 == 493
\* 0644 and 0444: the perm arguments the calls pass
PermRW == 420
PermRO == 292
\* 022: the usual umask
Umask022 == 18

RECURSIVE BitAnd(_, _)
BitAnd(a, b) ==
    IF a = 0 \/ b = 0 THEN 0
    ELSE (a % 2) * (b % 2) + 2 * BitAnd(a \div 2, b \div 2)

RECURSIVE BitOr(_, _)
BitOr(a, b) ==
    IF a = 0 THEN b
    ELSE IF b = 0 THEN a
    ELSE (IF a % 2 = 1 \/ b % 2 = 1 THEN 1 ELSE 0) + 2 * BitOr(a \div 2, b \div 2)

\* m &^ mask
BitClear(m, mask) == m - BitAnd(m, mask)

\* dperm := perm | ((perm & 0444) >> 2)
DirPerm(p) == BitOr(p, BitAnd(p, ReadBits) \div 4)

(***************************************************************************)
(* file.go: SaveFileFunc(file, f, perm), file = GrandDir/ParentDir/DestName *)
(***************************************************************************)
Procs == {1, 2}
GrandDir == "g"
ParentDir == "d"
\* entry names of ParentDir: 0 is filepath.Base(file), 1..NumTmpNames are the
\* names "."+Base(file)+<random> that os.CreateTemp draws
DestName == 0
TmpNames == 1..NumTmpNames
NoFile == [content |-> <<>>, mode |-> -1, creator |-> 0]
NoFail == MaxData + 1
Perms == {PermRW, PermRO}
\* the bytes the writer function of call p writes when it does not fail
Data(p) == [i \in 1..MaxData |-> 10 * p + i]
\* the content of a destination file that exists before the calls
OldContent == <<7>>

Exists(n) == n \in DOMAIN files
Entry(n) == IF Exists(n) THEN files[n] ELSE NoFile
Without(n) == [m \in (DOMAIN files) \ {n} |-> files[m]]
With(n, e) == [m \in (DOMAIN files) \cup {n} |-> IF m = n THEN e ELSE files[m]]

\* the kernel's check for creating an entry in directory d
CanCreateIn(d) == privileged \/ BitAnd(dirMode[d], OwnerWX) = OwnerWX

Note(p, what) == hist' = [hist EXCEPT ![p] = @ \cup {<<what, 1>>}]
Count(p, what) == hist' = [hist EXCEPT ![p] = @ \cup
                     {<<what, 1 + Cardinality({h \in @ : h[1] = what})>>}]

Return(p, e) == /\ ret' = [ret EXCEPT ![p] = e]
                /\ pc' = [pc EXCEPT ![p] = "done"]

InitFile ==
    /\ \E layout \in {"file", "nofile", "noparent", "nograndparent"} :
         /\ dirs = CASE layout \in {"file", "nofile"} -> {GrandDir, ParentDir}
                     [] layout = "noparent" -> {GrandDir}
                     [] OTHER -> {}
         /\ files = IF layout = "file"
                    THEN (DestName :> [content |-> OldContent, mode |-> PermRW, creator |-> 0])
                    ELSE <<>>
    /\ dirMode = [d \in dirs |-> DirMode0]
    /\ privileged \in BOOLEAN
    /\ umask \in {0, Umask022}
    /\ active \in {{1}, Procs}
    /\ pc = [p \in Procs |-> "idle"]
    /\ perm = [p \in Procs |-> 0]
    /\ failAt = [p \in Procs |-> NoFail]
    /\ tmp = [p \in Procs |-> 0]
    /\ err = [p \in Procs |-> "nil"]
    /\ ret = [p \in Procs |-> "none"]
    /\ hist = [p \in Procs |-> {}]
    /\ fs0 = [dirs |-> dirs, dest |-> Entry(DestName)]
    /\ lastRenamer = 0
    \* Minus and Merge are not called
    /\ sa = <<>> /\ sb = <<>> /\ sop = "idle" /\ sres = <<>>
    \* SortNatural is not called
    /\ values = <<>> /\ ignoreCase = FALSE /\ sorted = <<>> /\ sortPc = "idle"
    /\ lessArgs = <<>> /\ lessRes = {}
    \* AtExit and Exit are not called
    /\ exitFuncs = <<>> /\ nextExitID = 0 /\ mutex = 0
    /\ gpc = <<>> /\ garg = <<>> /\ gstack = <<>> /\ handles = {}
    /\ ran = <<>> /\ exited = FALSE /\ regOrder = <<>> /\ cancelled = {}

\* the caller enters SaveFileFunc with its perm and its writer function
Call(p) ==
    /\ p \in active
    /\ pc[p] = "idle"
    /\ \E m \in Perms, k \in 0..NoFail :
         /\ perm' = [perm EXCEPT ![p] = m]
         /\ failAt' = [failAt EXCEPT ![p] = k]
    /\ pc' = [pc EXCEPT ![p] = "create1"]
    /\ UNCHANGED <<dirs, dirMode, files, privileged, umask, active, tmp, err,
                   ret, hist, fs0, lastRenamer>>
    /\ UNCHANGED <<sliceVars, sortVars, exitVars>>

\* os.CreateTemp(dir, "."+filepath.Base(file)) succeeding: a new name, opened
\* O_EXCL with mode 0600
CreateTempOk(p, next) ==
    /\ ParentDir \in dirs
    /\ CanCreateIn(ParentDir)
    /\ \E n \in TmpNames \ DOMAIN files :
         /\ files' = With(n, [content |-> <<>>, mode |-> BitClear(TempMode, umask),
                                creator |-> p])
         /\ tmp' = [tmp EXCEPT ![p] = n]
    /\ pc' = [pc EXCEPT ![p] = next]
    /\ UNCHANGED <<err, ret>>

\* os.CreateTemp failing with an error other than a missing directory
CreateTempDenied(p) ==
    /\ ParentDir \in dirs
    /\ ~CanCreateIn(ParentDir)
    /\ Return(p, "ErrPermission")
    /\ UNCHANGED <<files, tmp, err>>

\* lines 60-65: the first os.CreateTemp
CreateTemp1(p) ==
    /\ pc[p] = "create1"
    /\ Count(p, "create")
    /\ \/ CreateTempOk(p, "write")
       \/ CreateTempDenied(p)
       \/ /\ ParentDir \notin dirs      \* os.IsNotExist(err)
          /\ pc' = [pc EXCEPT ![p] = "mkdir"]
          /\ UNCHANGED <<files, tmp, err, ret>>
    /\ UNCHANGED <<dirs, dirMode, privileged, umask, active, perm, failAt, fs0, lastRenamer>>
    /\ UNCHANGED <<sliceVars, sortVars, exitVars>>

\* lines 68-71: os.Mkdir(dir, dperm)
Mkdir(p) ==
    /\ pc[p] = "mkdir"
    /\ Count(p, "mkdir")
    /\ \/ /\ GrandDir \notin dirs
          /\ Return(p, "ErrNotExist")
          /\ UNCHANGED <<dirs, dirMode>>
       \/ /\ GrandDir \in dirs
          /\ ParentDir \in dirs
          /\ Return(p, "ErrExist")
          /\ UNCHANGED <<dirs, dirMode>>
       \/ /\ GrandDir \in dirs
          /\ ParentDir \notin dirs
          /\ dirs' = dirs \cup {ParentDir}
          /\ dirMode' = [d \in dirs' |-> IF d = ParentDir
                                          THEN BitClear(DirPerm(perm[p]), umask)
                                          ELSE dirMode[d]]
          /\ pc' = [pc EXCEPT ![p] = "create2"]
          /\ UNCHANGED ret
    /\ UNCHANGED <<files, privileged, umask, active, perm, failAt, tmp, err, fs0, lastRenamer>>
    /\ UNCHANGED <<sliceVars, sortVars, exitVars>>

\* lines 72-75: the second os.CreateTemp
CreateTemp2(p) ==
    /\ pc[p] = "create2"
    /\ Count(p, "create")
    /\ \/ CreateTempOk(p, "write")
       \/ CreateTempDenied(p)
    /\ UNCHANGED <<dirs, dirMode, privileged, umask, active, perm, failAt, fs0, lastRenamer>>
    /\ UNCHANGED <<sliceVars, sortVars, exitVars>>

Written(p) == Len(Entry(tmp[p]).content)

\* line 78, inside f: one more byte reaches the temporary file
WriterWrite(p) ==
    /\ pc[p] = "write"
    /\ Written(p) < MaxData
    /\ Written(p) < failAt[p]
    /\ files' = [files EXCEPT ![tmp[p]].content = Append(@, Data(p)[Written(p) + 1])]
    /\ UNCHANGED <<dirs, dirMode, privileged, umask, active, pc, perm, failAt,
                   tmp, err, ret, hist, fs0, lastRenamer>>
    /\ UNCHANGED <<sliceVars, sortVars, exitVars>>

\* WriterFail without the return of line 81: the call goes on to close and rename
WriterFailFallsThrough(p) ==
    /\ pc[p] = "write"
    /\ Written(p) = failAt[p]
    /\ err' = [err EXCEPT ![p] = "ErrWriter"]
    /\ pc' = [pc EXCEPT ![p] = "close"]
    /\ Note(p, "fFailed")
    /\ UNCHANGED <<dirs, dirMode, files, privileged, umask, active, perm, failAt,
                   tmp, ret, fs0, lastRenamer>>
    /\ UNCHANGED <<sliceVars, sortVars, exitVars>>

\* line 78: f returns an error
WriterFail(p) ==
    /\ pc[p] = "write"
    /\ Written(p) = failAt[p]
    /\ err' = [err EXCEPT ![p] = "ErrWriter"]
    /\ pc' = [pc EXCEPT ![p] = "failclose"]
    /\ Note(p, "fFailed")
    /\ UNCHANGED <<dirs, dirMode, files, privileged, umask, active, perm, failAt,
                   tmp, ret, fs0, lastRenamer>>
    /\ UNCHANGED <<sliceVars, sortVars, exitVars>>

\* line 78: f returns nil
WriterReturn(p) ==
    /\ pc[p] = "write"
    /\ Written(p) = MaxData
    /\ failAt[p] = NoFail
    /\ pc' = [pc EXCEPT ![p] = "close"]
    /\ Note(p, "fOk")
    /\ UNCHANGED <<dirs, dirMode, files, privileged, umask, active, perm, failAt,
                   tmp, err, ret, fs0, lastRenamer>>
    /\ UNCHANGED <<sliceVars, sortVars, exitVars>>

\* line 79: tmp.Close() after f failed, its result dropped
FailClose(p) ==
    /\ pc[p] = "failclose"
    /\ pc' = [pc EXCEPT ![p] = "remove"]
    /\ UNCHANGED <<dirs, dirMode, files, privileged, umask, active, perm, failAt,
                   tmp, err, ret, hist, fs0, lastRenamer>>
    /\ UNCHANGED <<sliceVars, sortVars, exitVars>>

\* Close without the os.Remove of line 85: a failed close returns at once
CloseNoRemove(p) ==
    /\ pc[p] = "close"
    /\ \/ /\ pc' = [pc EXCEPT ![p] = "rename"]
          /\ UNCHANGED <<err, ret, hist>>
       \/ /\ err' = [err EXCEPT ![p] = "ErrClose"]
          /\ Return(p, "ErrClose")
          /\ Note(p, "closeFault")
    /\ UNCHANGED <<dirs, dirMode, files, privileged, umask, active, perm, failAt,
                   tmp, fs0, lastRenamer>>
    /\ UNCHANGED <<sliceVars, sortVars, exitVars>>

\* line 84: tmp.Close()
Close(p) ==
    /\ pc[p] = "close"
    /\ \/ /\ pc' = [pc EXCEPT ![p] = "rename"]
          /\ UNCHANGED <<err, hist>>
       \/ /\ err' = [err EXCEPT ![p] = "ErrClose"]
          /\ pc' = [pc EXCEPT ![p] = "remove"]
          /\ Note(p, "closeFault")
    /\ UNCHANGED <<dirs, dirMode, files, privileged, umask, active, perm, failAt,
                   tmp, ret, fs0, lastRenamer>>
    /\ UNCHANGED <<sliceVars, sortVars, exitVars>>

\* os.Rename(tmp.Name(), file) succeeding: the entry moves in one step
RenameOk(p) ==
    /\ Exists(tmp[p])
    /\ files' = [n \in ((DOMAIN files) \ {tmp[p]}) \cup {DestName} |->
                   IF n = DestName THEN files[tmp[p]] ELSE files[n]]

\* lines 89-92: os.Rename and the return
Rename(p) ==
    /\ pc[p] = "rename"
    /\ \/ /\ RenameOk(p)
          /\ Return(p, "nil")
          /\ Note(p, "renamed")
          /\ lastRenamer' = p
          /\ UNCHANGED err
       \/ /\ err' = [err EXCEPT ![p] = "ErrRename"]
          /\ pc' = [pc EXCEPT ![p] = "remove"]
          /\ Note(p, "renameFault")
          /\ UNCHANGED <<files, ret, lastRenamer>>
    /\ UNCHANGED <<dirs, dirMode, privileged, umask, active, perm, failAt, tmp, fs0>>
    /\ UNCHANGED <<sliceVars, sortVars, exitVars>>

\* os.Remove(tmp.Name()) succeeding
RemoveOk(p) == files' = Without(tmp[p])

\* lines 80-81, 85-86, 90-92: os.Remove(tmp.Name()), its result dropped, return err
Remove(p) ==
    /\ pc[p] = "remove"
    /\ \/ /\ RemoveOk(p)
          /\ Note(p, "removed")
       \/ /\ UNCHANGED files
          /\ Note(p, "removeFailed")
    /\ Return(p, err[p])
    /\ UNCHANGED <<dirs, dirMode, privileged, umask, active, perm, failAt, tmp,
                   err, fs0, lastRenamer>>
    /\ UNCHANGED <<sliceVars, sortVars, exitVars>>

SaveFileFunc(p) ==
    \/ Call(p)
    \/ CreateTemp1(p)
    \/ Mkdir(p)
    \/ CreateTemp2(p)
    \/ WriterWrite(p)
    \/ WriterFail(p)
    \/ WriterReturn(p)
    \/ FailClose(p)
    \/ Close(p)
    \/ Rename(p)
    \/ Remove(p)

NextFile == \E p \in Procs : SaveFileFunc(p)

SpecFile == InitFile /\ [][NextFile]_vars

(***************************************************************************)
(* slice.go: ToMap, ToMapWithValue, Minus, Merge over []int.               *)
(***************************************************************************)
\* the largest element of the slices, which hold 0..MaxElem
MaxElem == 2
\* the longest slice
MaxLen == 2

\* var zero K, for K = int
Zero == 0
Elems == 0..MaxElem
Slices == UNION {[1..n -> Elems] : n \in 0..MaxLen}
Range(s) == {s[i] : i \in 1..Len(s)}

\* ToMap: m[key] = val for each generated pair, in order, skipping key == zero;
\* a later pair with the same key overwrites an earlier one
ToMap(keys, gen) ==
    LET pairs == [i \in 1..Len(keys) |-> gen[keys[i]]]
        kept == {i \in 1..Len(keys) : pairs[i][1] # Zero}
        last(k) == CHOOSE i \in kept :
                      /\ pairs[i][1] = k
                      /\ \A j \in kept : pairs[j][1] = k => j <= i
    IN  [k \in {pairs[i][1] : i \in kept} |-> pairs[last(k)][2]]

\* the generator func(k K) (K, V) { return k, v }
ToMapWithValue(keys, v) == ToMap(keys, [k \in Range(keys) |-> <<k, v>>])

\* Minus: the elements v of s1 with no entry m[v], m built from s2
Minus(s1, s2) ==
    LET m == ToMapWithValue(s2, TRUE)
    IN  SelectSeq(s1, LAMBDA v : v \notin DOMAIN m)

\* the loops of Merge over the values of all slices in order
RECURSIVE MergeLoop(_, _, _)
MergeLoop(rest, seen, result) ==
    IF rest = <<>> THEN result
    ELSE IF Head(rest) \in seen THEN MergeLoop(Tail(rest), seen, result)
    ELSE MergeLoop(Tail(rest), seen \cup {Head(rest)}, Append(result, Head(rest)))

RECURSIVE Concat(_)
Concat(ss) == IF ss = <<>> THEN <<>> ELSE Head(ss) \o Concat(Tail(ss))

Merge(slices) == MergeLoop(Concat(slices), {}, <<>>)

InitSlice ==
    /\ sa \in Slices
    /\ sb \in Slices
    /\ sop = "idle"
    /\ sres = <<>>
    \* SaveFileFunc is not called
    /\ dirs = {} /\ dirMode = <<>> /\ files = <<>> /\ privileged = FALSE
    /\ umask = 0 /\ active = {} /\ pc = <<>> /\ perm = <<>> /\ failAt = <<>>
    /\ tmp = <<>> /\ err = <<>> /\ ret = <<>> /\ hist = <<>>
    /\ fs0 = <<>> /\ lastRenamer = 0
    \* SortNatural is not called
    /\ values = <<>> /\ ignoreCase = FALSE /\ sorted = <<>> /\ sortPc = "idle"
    /\ lessArgs = <<>> /\ lessRes = {}
    \* AtExit and Exit are not called
    /\ exitFuncs = <<>> /\ nextExitID = 0 /\ mutex = 0
    /\ gpc = <<>> /\ garg = <<>> /\ gstack = <<>> /\ handles = {}
    /\ ran = <<>> /\ exited = FALSE /\ regOrder = <<>> /\ cancelled = {}

CallMinus ==
    /\ sop = "idle"
    /\ sop' = "Minus"
    /\ sres' = Minus(sa, sb)
    /\ UNCHANGED <<sa, sb, fileVars, sortVars, exitVars>>

CallMerge ==
    /\ sop = "idle"
    /\ sop' = "Merge"
    /\ sres' = Merge(<<sa, sb>>)
    /\ UNCHANGED <<sa, sb, fileVars, sortVars, exitVars>>

\* Minus(a, Merge(a, b))
CallMinusMerge ==
    /\ sop = "idle"
    /\ sop' = "MinusMerge"
    /\ sres' = Minus(sa, Merge(<<sa, sb>>))
    /\ UNCHANGED <<sa, sb, fileVars, sortVars, exitVars>>

NextSlice == CallMinus \/ CallMerge \/ CallMinusMerge

SpecSlice == InitSlice /\ [][NextSlice]_vars

(***************************************************************************)
(* Claims about Minus and Merge.                                           *)
(***************************************************************************)
NoDuplicates(s) == \A i, j \in 1..Len(s) : s[i] = s[j] => i = j
\* the position of the first occurrence of v in s
FirstAt(s, v) == CHOOSE i \in 1..Len(s) : s[i] = v /\ \A j \in 1..(i - 1) : s[j] # v

\* C6: Minus(a, b) is the subsequence of a, in order and with a's duplicates,
\* of the elements that occur nowhere in b, the zero value included.
C6_MinusIsDifference ==
    sop = "Minus" => sres = SelectSeq(sa, LAMBDA v : v \notin Range(sb))

\* C7: Minus(a, Merge(a, b)) is empty, and Merge(a, b) holds every distinct
\* element of a and b exactly once, in first-seen order.
C7_MinusOfMergeEmpty ==
    /\ sop = "MinusMerge" => sres = <<>>
    /\ sop = "Merge" =>
          /\ NoDuplicates(sres)
          /\ Range(sres) = Range(sa) \cup Range(sb)
          /\ \A i, j \in 1..Len(sres) :
                i < j => FirstAt(sa \o sb, sres[i]) < FirstAt(sa \o sb, sres[j])

(***************************************************************************)
(* slice.go: SortNatural, naturalLess, getChunk.  A string is the sequence *)
(* of its character codes.                                                 *)
(***************************************************************************)
\* the longest generated string
MaxStrLen == 3
\* the longest generated slice of strings
MaxVals == 2

\* ' ', '0', '1', 'A', 'a'
SortAlphabet == {32, 48, 49, 65, 97}
Strings == UNION {[1..n -> SortAlphabet] : n \in 0..MaxStrLen}
\* "v1.10.3", "v1.5.1", "v1.10.1": the example of SortNatural's comment
VersionExample == << <<118, 49, 46, 49, 48, 46, 51>>,
                     <<118, 49, 46, 53, 46, 49>>,
                     <<118, 49, 46, 49, 48, 46, 49>> >>
\* "item10", "item2"
ItemExample == << <<105, 116, 101, 109, 49, 48>>, <<105, 116, 101, 109, 50>> >>

\* unicode.IsDigit, on the codes below 128
IsDigit(c) == c \in 48..57
\* unicode.IsSpace, on the codes below 256
IsSpace(c) == c \in {9, 10, 11, 12, 13, 32, 133, 160}
\* strings.ToLower, on the codes below 128
ToLower(str) == [i \in 1..Len(str) |-> IF str[i] \in 65..90 THEN str[i] + 32 ELSE str[i]]

\* Go's < on strings: bytewise lexicographic
RECURSIVE StrLess(_, _)
StrLess(x, y) ==
    IF y = <<>> THEN FALSE
    ELSE IF x = <<>> THEN TRUE
    ELSE IF Head(x) # Head(y) THEN Head(x) < Head(y)
    ELSE StrLess(Tail(x), Tail(y))

\* the length of the run the loop of getChunk collects: the leading digits,
\* or the leading non-digits
RECURSIVE RunLen(_, _)
RunLen(str, digit) ==
    IF str = <<>> \/ IsDigit(Head(str)) # digit THEN 0
    ELSE 1 + RunLen(Tail(str), digit)

\* strings.TrimLeft(x, "0")
RECURSIVE TrimLeftZeros(_)
TrimLeftZeros(x) == IF x # <<>> /\ Head(x) = 48 THEN TrimLeftZeros(Tail(x)) ELSE x

RECURSIVE TrimSpaceLeft(_)
TrimSpaceLeft(x) == IF x # <<>> /\ IsSpace(Head(x)) THEN TrimSpaceLeft(Tail(x)) ELSE x

RECURSIVE TrimSpaceRight(_)
TrimSpaceRight(x) ==
    IF x # <<>> /\ IsSpace(x[Len(x)]) THEN TrimSpaceRight(SubSeq(x, 1, Len(x) - 1)) ELSE x

\* strings.TrimSpace
TrimSpace(x) == TrimSpaceRight(TrimSpaceLeft(x))

\* getChunk(s): (chunk, isNum, rest of s)
getChunk(str) ==
    LET nd == RunLen(str, TRUE)
        nt == RunLen(str, FALSE)
        trimmed == TrimLeftZeros(SubSeq(str, 1, nd))
    IN  IF nd > 0
        THEN [chunk |-> IF trimmed = <<>> THEN <<48>> ELSE trimmed,
              isNum |-> TRUE,
              rest |-> SubSeq(str, nd + 1, Len(str))]
        ELSE [chunk |-> TrimSpace(SubSeq(str, 1, nt)),
              isNum |-> FALSE,
              rest |-> SubSeq(str, nt + 1, Len(str))]

\* naturalLess(s1, s2): one turn of its loop, then the next
RECURSIVE naturalLess(_, _)
naturalLess(s1, s2) ==
    LET c1 == getChunk(s1)
        c2 == getChunk(s2)
    IN  IF c1.chunk = <<>> THEN TRUE
        ELSE IF c2.chunk = <<>> THEN FALSE
        ELSE IF c1.chunk # c2.chunk
        THEN IF c1.isNum /\ c2.isNum /\ Len(c1.chunk) # Len(c2.chunk)
             THEN Len(c1.chunk) < Len(c2.chunk)
             ELSE StrLess(c1.chunk, c2.chunk)
        ELSE naturalLess(c1.rest, c2.rest)

\* the less function SortNatural hands to sort.Slice
SortLess(data, i, j, fold) ==
    IF fold THEN naturalLess(ToLower(data[i]), ToLower(data[j]))
    ELSE naturalLess(data[i], data[j])

Swap(data, i, j) ==
    [k \in 1..Len(data) |-> IF k = i THEN data[j] ELSE IF k = j THEN data[i] ELSE data[k]]

\* sort.Slice on at most 12 elements is an insertion sort:
\*   for i := a + 1; i < b; i++ {
\*       for j := i; j > a && less(j, j-1); j-- { swap(j, j-1) } }
RECURSIVE SiftDown(_, _, _)
SiftDown(data, j, fold) ==
    IF j > 1 /\ SortLess(data, j, j - 1, fold)
    THEN SiftDown(Swap(data, j, j - 1), j - 1, fold)
    ELSE data

RECURSIVE InsertionSort(_, _, _)
InsertionSort(data, i, fold) ==
    IF i > Len(data) THEN data
    ELSE InsertionSort(SiftDown(data, i, fold), i + 1, fold)

\* SortNatural(values, ignoreCase): sort a copy of values
SortNatural(vals, fold) == InsertionSort(vals, 2, fold)

InitSort ==
    /\ values \in (UNION {[1..n -> Strings] : n \in 0..MaxVals})
                     \cup {VersionExample, ItemExample}
    /\ ignoreCase \in BOOLEAN
    /\ sorted = <<>>
    /\ sortPc = "idle"
    /\ lessArgs = <<>> /\ lessRes = {}
    \* SaveFileFunc is not called
    /\ dirs = {} /\ dirMode = <<>> /\ files = <<>> /\ privileged = FALSE
    /\ umask = 0 /\ active = {} /\ pc = <<>> /\ perm = <<>> /\ failAt = <<>>
    /\ tmp = <<>> /\ err = <<>> /\ ret = <<>> /\ hist = <<>>
    /\ fs0 = <<>> /\ lastRenamer = 0
    \* Minus and Merge are not called
    /\ sa = <<>> /\ sb = <<>> /\ sop = "idle" /\ sres = <<>>
    \* AtExit and Exit are not called
    /\ exitFuncs = <<>> /\ nextExitID = 0 /\ mutex = 0
    /\ gpc = <<>> /\ garg = <<>> /\ gstack = <<>> /\ handles = {}
    /\ ran = <<>> /\ exited = FALSE /\ regOrder = <<>> /\ cancelled = {}

CallSortNatural ==
    /\ sortPc = "idle"
    /\ sorted' = SortNatural(values, ignoreCase)
    /\ sortPc' = "done"
    /\ UNCHANGED <<values, ignoreCase, lessArgs, lessRes>>
    /\ UNCHANGED <<fileVars, sliceVars, exitVars>>

NextSort == CallSortNatural

SpecSort == InitSort /\ [][NextSort]_vars

InitLess ==
    /\ lessArgs \in Strings \X Strings
    /\ lessRes = {}
    /\ values = <<>> /\ ignoreCase = FALSE /\ sorted = <<>> /\ sortPc = "idle"
    \* SaveFileFunc is not called
    /\ dirs = {} /\ dirMode = <<>> /\ files = <<>> /\ privileged = FALSE
    /\ umask = 0 /\ active = {} /\ pc = <<>> /\ perm = <<>> /\ failAt = <<>>
    /\ tmp = <<>> /\ err = <<>> /\ ret = <<>> /\ hist = <<>>
    /\ fs0 = <<>> /\ lastRenamer = 0
    \* Minus and Merge are not called
    /\ sa = <<>> /\ sb = <<>> /\ sop = "idle" /\ sres = <<>>
    \* AtExit and Exit are not called
    /\ exitFuncs = <<>> /\ nextExitID = 0 /\ mutex = 0
    /\ gpc = <<>> /\ garg = <<>> /\ gstack = <<>> /\ handles = {}
    /\ ran = <<>> /\ exited = FALSE /\ regOrder = <<>> /\ cancelled = {}

\* lines 214-220 with ignoreCase false: the less function is called on the
\* elements at i and j, and naturalLess answers
CallNaturalLess(i, j) ==
    /\ \A b \in BOOLEAN : <<i, j, b>> \notin lessRes
    /\ lessRes' = lessRes \cup {<<i, j, naturalLess(lessArgs[i], lessArgs[j])>>}
    /\ UNCHANGED <<values, ignoreCase, sorted, sortPc, lessArgs>>
    /\ UNCHANGED <<fileVars, sliceVars, exitVars>>

NextLess == \E i, j \in 1..2 : CallNaturalLess(i, j)

SpecLess == InitLess /\ [][NextLess]_vars

(***************************************************************************)
(* Claims about SortNatural.                                               *)
(***************************************************************************)
Occurrences(s, v) == Cardinality({i \in 1..Len(s) : s[i] = v})
IsPermutation(s, t) ==
    /\ Len(s) = Len(t)
    /\ \A i \in 1..Len(s) : Occurrences(s, s[i]) = Occurrences(t, s[i])

\* the number a digit run denotes
RECURSIVE NumValue(_)
NumValue(x) == IF x = <<>> THEN 0 ELSE 10 * NumValue(SubSeq(x, 1, Len(x) - 1)) + (x[Len(x)] - 48)

\* natural order as C8 states it: the strings are cut into maximal digit runs
\* and maximal non-digit runs; two digit runs compare by numeric value, any
\* other pair as plain text; the string that runs out of chunks first comes first
RECURSIVE NaturalBefore(_, _)
NaturalBefore(x, y) ==
    IF y = <<>> THEN FALSE
    ELSE IF x = <<>> THEN TRUE
    ELSE LET dx == IsDigit(Head(x))
             dy == IsDigit(Head(y))
             nx == RunLen(x, dx)
             ny == RunLen(y, dy)
             cx == SubSeq(x, 1, nx)
             cy == SubSeq(y, 1, ny)
         IN  IF dx /\ dy /\ NumValue(cx) # NumValue(cy) THEN NumValue(cx) < NumValue(cy)
             ELSE IF ~(dx /\ dy) /\ cx # cy THEN StrLess(cx, cy)
             ELSE NaturalBefore(SubSeq(x, nx + 1, Len(x)), SubSeq(y, ny + 1, Len(y)))

Folded(x) == IF ignoreCase THEN ToLower(x) ELSE x

\* C8: SortNatural returns a permutation of values in natural order (no
\* string placed after one that natural order puts after it), and sorts the
\* version example to "v1.5.1", "v1.10.1", "v1.10.3" and "item2" before "item10".
C8_SortNaturalOrders ==
    sortPc = "done" =>
        /\ IsPermutation(sorted, values)
        /\ \A i, j \in 1..Len(sorted) :
              i < j => ~NaturalBefore(Folded(sorted[j]), Folded(sorted[i]))
        /\ values = VersionExample =>
              sorted = <<VersionExample[2], VersionExample[3], VersionExample[1]>>
        /\ values = ItemExample => sorted = <<ItemExample[2], ItemExample[1]>>

\* C11: naturalLess is a strict ordering: naturalLess(s, s) is false, and
\* naturalLess(s, t) and naturalLess(t, s) are never both true.
C11_NaturalLessStrict ==
    \A i, j \in 1..2 :
        /\ <<i, i, TRUE>> \notin lessRes
        /\ ~(<<i, j, TRUE>> \in lessRes /\ <<j, i, TRUE>> \in lessRes)

(***************************************************************************)
(* exit.go: AtExit, the cancel closure it returns, Exit.                   *)
(***************************************************************************)
\* the number of registrations made through AtExit
MaxHooks == 3

Goroutines == {1, 2}
\* what a registered function does when Exit calls it: return at once, call
\* the cancel function of its own registration, call AtExit, or call Exit
\* (as Fail does)
HookKinds == {"plain", "cancel", "atexit", "exit"}
\* the cancel function AtExit(nil) returns: func() {}
NoopHandle == -1
NoArg == [f |-> "none", id |-> -1, i |-> 0]

Ids(list) == [k \in 1..Len(list) |-> list[k].id]

\* for i := range exitFuncs { if exitFuncs[i].id == e.id {...; break} }
FirstWithId(list, id) ==
    IF \E k \in 1..Len(list) : list[k].id = id
    THEN CHOOSE k \in 1..Len(list) :
            list[k].id = id /\ \A j \in 1..(k - 1) : list[j].id # id
    ELSE 0

\* RemoveAt with exitFuncs[:i] alone: the entries after i are lost too
RemoveAtTruncates(list, k) == SubSeq(list, 1, k - 1)

\* append(exitFuncs[:i], exitFuncs[i+1:]...)
RemoveAt(list, k) == SubSeq(list, 1, k - 1) \o SubSeq(list, k + 1, Len(list))

\* the return of a call: to the caller's frame, or to the goroutine's own code
ReturnFrom(g) ==
    /\ gpc' = [gpc EXCEPT ![g] = IF gstack[g] = <<>> THEN "idle" ELSE Head(gstack[g]).pc]
    /\ garg' = [garg EXCEPT ![g] = IF gstack[g] = <<>> THEN NoArg ELSE Head(gstack[g]).arg]
    /\ gstack' = [gstack EXCEPT ![g] = IF @ = <<>> THEN @ ELSE Tail(@)]

InitExit ==
    /\ exitFuncs = <<>>
    /\ nextExitID = 0
    /\ mutex = 0
    /\ gpc = [g \in Goroutines |-> "idle"]
    /\ garg = [g \in Goroutines |-> NoArg]
    /\ gstack = [g \in Goroutines |-> <<>>]
    /\ handles = {}
    /\ ran = <<>>
    /\ exited = FALSE
    /\ regOrder = <<>>
    /\ cancelled = {}
    \* SaveFileFunc is not called
    /\ dirs = {} /\ dirMode = <<>> /\ files = <<>> /\ privileged = FALSE
    /\ umask = 0 /\ active = {} /\ pc = <<>> /\ perm = <<>> /\ failAt = <<>>
    /\ tmp = <<>> /\ err = <<>> /\ ret = <<>> /\ hist = <<>>
    /\ fs0 = <<>> /\ lastRenamer = 0
    \* Minus and Merge are not called
    /\ sa = <<>> /\ sb = <<>> /\ sop = "idle" /\ sres = <<>>
    \* SortNatural is not called
    /\ values = <<>> /\ ignoreCase = FALSE /\ sorted = <<>> /\ sortPc = "idle"
    /\ lessArgs = <<>> /\ lessRes = {}

\* AtExit(nil): lines 20-22
AtExitNil(g) ==
    /\ ~exited /\ gpc[g] = "idle"
    /\ handles' = handles \cup {NoopHandle}
    /\ UNCHANGED <<exitFuncs, nextExitID, mutex, gpc, garg, gstack, ran, exited,
                   regOrder, cancelled>>
    /\ UNCHANGED <<fileVars, sliceVars, sortVars>>

\* a goroutine calls AtExit(f), f not nil
AtExitCall(g) ==
    /\ ~exited /\ gpc[g] = "idle"
    /\ nextExitID + Cardinality({h \in Goroutines : gpc[h] \in {"atexit_lock", "atexit_body"}})
          < MaxHooks
    /\ \E f \in HookKinds : garg' = [garg EXCEPT ![g] = [NoArg EXCEPT !.f = f]]
    /\ gpc' = [gpc EXCEPT ![g] = "atexit_lock"]
    /\ UNCHANGED <<exitFuncs, nextExitID, mutex, gstack, handles, ran, exited,
                   regOrder, cancelled>>
    /\ UNCHANGED <<fileVars, sliceVars, sortVars>>

\* line 24: exitFuncsMutex.Lock()
AtExitLock(g) ==
    /\ ~exited /\ gpc[g] = "atexit_lock"
    /\ mutex = 0
    /\ mutex' = g
    /\ gpc' = [gpc EXCEPT ![g] = "atexit_body"]
    /\ UNCHANGED <<exitFuncs, nextExitID, garg, gstack, handles, ran, exited,
                   regOrder, cancelled>>
    /\ UNCHANGED <<fileVars, sliceVars, sortVars>>

\* lines 27-32 and the deferred Unlock: register, return the cancel closure
AtExitBody(g) ==
    /\ ~exited /\ gpc[g] = "atexit_body"
    /\ exitFuncs' = Append(exitFuncs, [id |-> nextExitID, f |-> garg[g].f])
    /\ nextExitID' = nextExitID + 1
    /\ handles' = handles \cup {nextExitID}
    /\ regOrder' = Append(regOrder, nextExitID)
    /\ mutex' = 0
    /\ ReturnFrom(g)
    /\ UNCHANGED <<ran, exited, cancelled>>
    /\ UNCHANGED <<fileVars, sliceVars, sortVars>>

\* a goroutine calls the func() {} that AtExit(nil) returned
CancelNoop(g) ==
    /\ ~exited /\ gpc[g] = "idle"
    /\ NoopHandle \in handles
    /\ UNCHANGED exitVars
    /\ UNCHANGED <<fileVars, sliceVars, sortVars>>

\* a goroutine calls a cancel function that AtExit returned
CancelCall(g) ==
    /\ ~exited /\ gpc[g] = "idle"
    /\ \E id \in handles \ {NoopHandle} : garg' = [garg EXCEPT ![g] = [NoArg EXCEPT !.id = id]]
    /\ gpc' = [gpc EXCEPT ![g] = "cancel_lock"]
    /\ UNCHANGED <<exitFuncs, nextExitID, mutex, gstack, handles, ran, exited,
                   regOrder, cancelled>>
    /\ UNCHANGED <<fileVars, sliceVars, sortVars>>

\* line 33: exitFuncsMutex.Lock()
CancelLock(g) ==
    /\ ~exited /\ gpc[g] = "cancel_lock"
    /\ mutex = 0
    /\ mutex' = g
    /\ gpc' = [gpc EXCEPT ![g] = "cancel_body"]
    /\ UNCHANGED <<exitFuncs, nextExitID, garg, gstack, handles, ran, exited,
                   regOrder, cancelled>>
    /\ UNCHANGED <<fileVars, sliceVars, sortVars>>

\* lines 36-41 and the deferred Unlock
CancelBody(g) ==
    /\ ~exited /\ gpc[g] = "cancel_body"
    /\ LET k == FirstWithId(exitFuncs, garg[g].id)
       IN  exitFuncs' = IF k = 0 THEN exitFuncs ELSE RemoveAt(exitFuncs, k)
    /\ cancelled' = cancelled \cup {garg[g].id}
    /\ mutex' = 0
    /\ ReturnFrom(g)
    /\ UNCHANGED <<nextExitID, handles, ran, exited, regOrder>>
    /\ UNCHANGED <<fileVars, sliceVars, sortVars>>

\* a goroutine calls Exit(code), or Fail, which calls Exit(1)
ExitCall(g) ==
    /\ ~exited /\ gpc[g] = "idle"
    /\ gpc' = [gpc EXCEPT ![g] = "exit_lock"]
    /\ UNCHANGED <<exitFuncs, nextExitID, mutex, garg, gstack, handles, ran,
                   exited, regOrder, cancelled>>
    /\ UNCHANGED <<fileVars, sliceVars, sortVars>>

\* line 48: exitFuncsMutex.Lock(); line 51: i := len(exitFuncs) - 1
ExitLock(g) ==
    /\ ~exited /\ gpc[g] = "exit_lock"
    /\ mutex = 0
    /\ mutex' = g
    /\ gpc' = [gpc EXCEPT ![g] = "exit_loop"]
    /\ garg' = [garg EXCEPT ![g] = [NoArg EXCEPT !.i = Len(exitFuncs)]]
    /\ UNCHANGED <<exitFuncs, nextExitID, gstack, handles, ran, exited,
                   regOrder, cancelled>>
    /\ UNCHANGED <<fileVars, sliceVars, sortVars>>

\* lines 51-52: exitFuncs[i].f() is called; a plain function returns and the
\* loop goes on with i--, any other enters the function it calls
ExitRunHook(g) ==
    /\ ~exited /\ gpc[g] = "exit_loop"
    /\ garg[g].i >= 1
    /\ LET e == exitFuncs[garg[g].i]
           resume == [pc |-> "exit_loop", arg |-> [NoArg EXCEPT !.i = garg[g].i - 1]]
       IN  /\ ran' = Append(ran, e.id)
           /\ IF e.f = "plain"
              THEN /\ garg' = [garg EXCEPT ![g] = resume.arg]
                   /\ UNCHANGED <<gpc, gstack>>
              ELSE /\ gstack' = [gstack EXCEPT ![g] = <<resume>> \o @]
                   /\ gpc' = [gpc EXCEPT ![g] =
                                CASE e.f = "cancel" -> "cancel_lock"
                                  [] e.f = "atexit" -> "atexit_lock"
                                  [] OTHER -> "exit_lock"]
                   /\ garg' = [garg EXCEPT ![g] =
                                CASE e.f = "cancel" -> [NoArg EXCEPT !.id = e.id]
                                  [] e.f = "atexit" -> [NoArg EXCEPT !.f = "plain"]
                                  [] OTHER -> NoArg]
    /\ UNCHANGED <<exitFuncs, nextExitID, mutex, handles, exited, regOrder, cancelled>>
    /\ UNCHANGED <<fileVars, sliceVars, sortVars>>

\* line 54: os.Exit(code); the process is gone, the mutex never released
ExitOsExit(g) ==
    /\ ~exited /\ gpc[g] = "exit_loop"
    /\ garg[g].i = 0
    /\ exited' = TRUE
    /\ UNCHANGED <<exitFuncs, nextExitID, mutex, gpc, garg, gstack, handles, ran,
                   regOrder, cancelled>>
    /\ UNCHANGED <<fileVars, sliceVars, sortVars>>

GoroutineStep(g) ==
    \/ AtExitNil(g)
    \/ AtExitCall(g)
    \/ AtExitLock(g)
    \/ AtExitBody(g)
    \/ CancelNoop(g)
    \/ CancelCall(g)
    \/ CancelLock(g)
    \/ CancelBody(g)
    \/ ExitCall(g)
    \/ ExitLock(g)
    \/ ExitRunHook(g)
    \/ ExitOsExit(g)

NextExit == \E g \in Goroutines : GoroutineStep(g)

SpecExit == InitExit /\ [][NextExit]_vars

\* every goroutine keeps running, and sync.Mutex hands the lock to each waiter
\* in the end (its starvation mode): Lock is strongly fair
SpecExitFair ==
    /\ SpecExit
    /\ \A g \in Goroutines :
          /\ WF_vars(GoroutineStep(g))
          /\ SF_vars(AtExitLock(g) \/ CancelLock(g) \/ ExitLock(g))

(***************************************************************************)
(* Claims about AtExit and Exit.                                           *)
(***************************************************************************)
RECURSIVE Reverse(_)
Reverse(s) == IF s = <<>> THEN <<>> ELSE Append(Reverse(Tail(s)), Head(s))

IsPrefix(s, t) == Len(s) <= Len(t) /\ SubSeq(t, 1, Len(s)) = s
\* the registrations made and not cancelled, in order of registration
Live == SelectSeq(regOrder, LAMBDA id : id \notin cancelled)

\* C9: Exit calls the functions registered and not cancelled, each once, in
\* reverse order of registration, and only then exits; a cancel function
\* removes its own registration only, and nothing when called again;
\* AtExit(nil) registers nothing.
C9_ExitRunsLiveHooksInReverse ==
    /\ Ids(exitFuncs) = Live
    /\ \A k \in 1..Len(exitFuncs) : exitFuncs[k].f \in HookKinds
    /\ Len(regOrder) = nextExitID
    /\ IsPrefix(ran, Reverse(Live))
    /\ exited => ran = Reverse(Live)

C9_Witness ==
    /\ exited
    /\ Len(regOrder) = 3
    /\ cancelled = {1}
    /\ NoopHandle \in handles
    /\ ran = <<2, 0>>

\* C10: once Exit is called it reaches os.Exit.
C10_ExitTerminates ==
    (\E g \in Goroutines : gpc[g] \in {"exit_lock", "exit_loop"}) ~> exited

(***************************************************************************)
(* Claims about SaveFileFunc.                                              *)
(***************************************************************************)
Did(p, what) == <<what, 1>> \in hist[p]
Alone(p) == active = {p}
\* no failure of close, rename or remove was injected into call p
NoFault(p) == ~Did(p, "closeFault") /\ ~Did(p, "renameFault") /\ ~Did(p, "removeFailed")
TempsOf(p) == {n \in TmpNames \cap DOMAIN files : files[n].creator = p}
\* the directory Mkdir would create for call p admits new entries
DirUsable(p) == privileged \/ BitAnd(BitClear(DirPerm(perm[p]), umask), OwnerWX) = OwnerWX

\* C1: a call whose writer function fails leaves the destination as it was
\* before the call in every state from its start to its return and returns
\* the writer's error; and in no state at all does the destination hold
\* anything but its old content or the complete data of a call whose writer
\* succeeded.
C1_WriterErrorLeavesDestination ==
    /\ \A p \in Procs :
         (Alone(p) /\ pc[p] # "idle" /\ failAt[p] # NoFail) =>
            /\ Entry(DestName) = fs0.dest
            /\ (pc[p] = "done" /\ Did(p, "fFailed")) => ret[p] = "ErrWriter"
    /\ Exists(DestName) =>
          \/ Entry(DestName) = fs0.dest
          \/ \E q \in Procs : /\ failAt[q] = NoFail
                               /\ Entry(DestName).content = Data(q)
    /\ \A p \in Procs : failAt[p] # NoFail => ~Did(p, "renamed")

C1_Witness ==
    \E p \in Procs :
        /\ Alone(p) /\ pc[p] = "done" /\ Did(p, "fFailed")
        /\ failAt[p] = 1
        /\ fs0.dest.content = OldContent
        /\ ret[p] = "ErrWriter"

\* C2: whenever the call returns nil, the destination exists, holds exactly
\* the bytes the writer wrote, and has the permission bits perm (less umask).
C2_SuccessInstallsContentAndPerm ==
    \A p \in Procs :
        (Alone(p) /\ pc[p] = "done" /\ ret[p] = "nil") =>
            /\ Exists(DestName)
            /\ Entry(DestName).content = Data(p)
            /\ Entry(DestName).mode = BitClear(perm[p], umask)

\* C3: run alone with a writer that succeeds and no failing close, rename or
\* remove: with only the parent directory missing the call succeeds and
\* creates exactly that directory; with the grandparent missing too it fails,
\* creates nothing, and tries Mkdir at most once and CreateTemp at most twice.
C3_MissingParentLevels ==
    \A p \in Procs :
        (Alone(p) /\ pc[p] = "done" /\ failAt[p] = NoFail /\ NoFault(p)) =>
            /\ fs0.dirs = {GrandDir} =>
                  /\ ret[p] = "nil"
                  /\ dirs = {GrandDir, ParentDir}
            /\ fs0.dirs = {} =>
                  /\ ret[p] # "nil"
                  /\ dirs = {}
                  /\ files = <<>>
                  /\ <<"mkdir", 2>> \notin hist[p]
                  /\ <<"create", 3>> \notin hist[p]

\* C4: two concurrent calls, each of which would succeed alone, with writers
\* that succeed: distinct temporary files, both return nil, and once both
\* have returned the destination holds the data of the call that renamed last.
C4_ConcurrentCallsBothInstall ==
    /\ \A p, q \in Procs :
         (p # q /\ pc[p] \in {"write", "close", "rename"}
                /\ pc[q] \in {"write", "close", "rename"}) => tmp[p] # tmp[q]
    /\ ( /\ active = Procs
         /\ fs0.dirs # {}
         /\ \A p \in Procs : /\ pc[p] = "done"
                              /\ failAt[p] = NoFail
                              /\ NoFault(p)
                              /\ (ParentDir \in fs0.dirs \/ DirUsable(p)) )
       => /\ \A p \in Procs : ret[p] = "nil"
          /\ lastRenamer \in Procs
          /\ Entry(DestName).content = Data(lastRenamer)

\* C5: a call that created its temporary file ends either promoted (renamed,
\* nil returned, no temporary file left) or discarded: then os.Remove was
\* tried, the error of the failing step is returned, and no temporary file of
\* the call remains if the remove succeeded; never is more than one left.
C5_PromotedOrDiscarded ==
    \A p \in Procs :
        /\ Cardinality(TempsOf(p)) <= 1
        /\ (pc[p] = "done" /\ tmp[p] # 0) =>
              /\ (ret[p] = "nil") <=> Did(p, "renamed")
              /\ ret[p] = "nil" =>
                    /\ TempsOf(p) = {}
                    /\ ~Did(p, "removed") /\ ~Did(p, "removeFailed")
              /\ ret[p] # "nil" =>
                    /\ Did(p, "removed") \/ Did(p, "removeFailed")
                    /\ Did(p, "removed") => TempsOf(p) = {}
                    /\ ret[p] = (CASE Did(p, "fFailed") -> "ErrWriter"
                                   [] Did(p, "closeFault") -> "ErrClose"
                                   [] Did(p, "renameFault") -> "ErrRename"
                                   [] OTHER -> "unknown")

C5_Witness ==
    \E p \in Procs :
        /\ pc[p] = "done" /\ ret[p] = "ErrRename"
        /\ Did(p, "removeFailed")
        /\ Cardinality(TempsOf(p)) = 1

====
